---- MODULE Spec2Model ----
(***************************************************************************)
(* Database readiness protocol of src-tauri/src/main.rs (the setup         *)
(* closure): locate the storage directory, wait for the plugin's database   *)
(* file, connect with bounded retries and backoff, publish the pool.       *)
(*                                                                         *)
(* The setup flow is cut at its suspension points (the tokio sleeps and    *)
(* the connect await) and at each read of the file system; the plugin      *)
(* (the external initializer) changes the file system between those steps. *)
(***************************************************************************)
EXTENDS Integers, Sequences, FiniteSets, TLC

(* ------------------------------ bounds -------------------------------- *)

\* Largest database file length (in pages) the plugin writes in the model.
MaxFileLen == 1

(* ------------------------- program constants -------------------------- *)

\* main.rs:121  tokio::time::sleep(Duration::from_millis(1000))
W1 == 1000

\* main.rs:126  tokio::time::sleep(Duration::from_millis(2000))
W2 == 2000

\* main.rs:138  let max_attempts = 3;
max_attempts == 3

\* main.rs:173  Duration::from_millis(100 * connection_attempts as u64)
BackoffBase == 100

\* The code (db_err.code(), a string) sqlite reports for a file that cannot
\* be opened: SQLITE_CANTOPEN.
SQLITE_CANTOPEN == "14"

(* ------------------------------- paths -------------------------------- *)

\* A path is the sequence of its components; "/" is the root component.
IsAbsolute(p) == Len(p) > 0 /\ p[1] = "/"

\* PathBuf::join: an absolute argument replaces the receiver.
Join(p, q) == IF IsAbsolute(q) THEN q ELSE p \o q

\* main.rs:101  "alduin.db"
DbFileName == <<"alduin.db">>

\* main.rs:87  ".config/io.stouder.alduin"
HomeConfigSuffix == <<".config", "io.stouder.alduin">>

\* main.rs:91  "./data"
EmergencyDir == <<".", "data">>

\* The directory handle.path_resolver().app_config_dir() yields when it
\* yields one (main.rs:83).
NativeDirValue == <<"/", "cfg", "io.stouder.alduin">>

\* The value of HOME when it is set to valid Unicode (main.rs:86).
HomeValue == <<"/", "home", "u">>

\* A value of HOME that is not valid Unicode (kept as raw bytes by the OS).
HomeBytes == <<"/", "home", "u\\xFF">>

NoPath == <<>>

\* Option<PathBuf> returned by app_config_dir()
NativeOptions == {[some |-> TRUE, v |-> NativeDirValue], [some |-> FALSE, v |-> NoPath]}

\* Result of std::env::var("HOME"): Ok(value), Err(NotPresent), or
\* Err(NotUnicode) when HOME is set to bytes that are not valid Unicode.
HomeOptions ==
    { [set |-> FALSE, ok |-> FALSE, v |-> NoPath],
      [set |-> TRUE,  ok |-> TRUE,  v |-> HomeValue],
      [set |-> TRUE,  ok |-> FALSE, v |-> HomeBytes] }

\* The directories the protocol can resolve to with a well-formed HOME.
CandidateDirs == {NativeDirValue, Join(HomeValue, HomeConfigSuffix), EmergencyDir}

(* --------------------------- diagnostics ------------------------------ *)

\* Arguments of a formatted message (eprintln! / panic!).
AInt(n)  == [t |-> "int",  i |-> n, p |-> NoPath, b |-> FALSE, k |-> "", c |-> ""]
APath(q) == [t |-> "path", i |-> 0, p |-> q,      b |-> FALSE, k |-> "", c |-> ""]
ABool(x) == [t |-> "bool", i |-> 0, p |-> NoPath, b |-> x,     k |-> "", c |-> ""]
ACode(x) == [t |-> "code", i |-> 0, p |-> NoPath, b |-> FALSE, k |-> "", c |-> x]
AErr(e)  == [t |-> "err",  i |-> 0, p |-> NoPath, b |-> FALSE, k |-> e.kind, c |-> e.code]

Msg(fmt, args) == [fmt |-> fmt, args |-> args]

\* One call of tokio::time::sleep: where it is made and for how long.
Sleep(site, ms) == [site |-> site, ms |-> ms]

\* sqlx::Error values a connection attempt can return.
DbError(code) == [kind |-> "Database", code |-> code]
IoError == [kind |-> "Io", code |-> ""]
ConnectErrors == {DbError(SQLITE_CANTOPEN), IoError}

NoPanic == [raised |-> FALSE, msg |-> Msg("", <<>>)]

(* ------------------------------- state -------------------------------- *)

VARIABLES
    pc,                  \* position of the setup closure
    native_dir,          \* what app_config_dir() returns
    home_env,            \* what std::env::var("HOME") returns
    dirs,                \* directories that exist on disk
    plugin_dir,          \* directory the plugin creates its database in
    file,                \* the plugin's database file: exists, len, readonly
    app_dir,             \* main.rs:83
    sqlite_path,         \* main.rs:101
    connect_options,     \* main.rs:116
    connection_attempts, \* main.rs:137
    created,             \* paths the setup flow itself created on disk
    checks,              \* whether the file was there when each wait ended
    sleeps,              \* calls of tokio::time::sleep, in order: site and ms
    outcomes,            \* what each SqlitePool::connect_with call returned
    log,                 \* lines written by eprintln!, in order
    managed,             \* pools in the app's managed state (app.manage)
    panicked,            \* the panic that aborted the process, if any
    result               \* what the setup closure returned

vars == <<pc, native_dir, home_env, dirs, plugin_dir, file, app_dir, sqlite_path,
          connect_options, connection_attempts, created, checks, sleeps, outcomes,
          log, managed, panicked, result>>

envVars == <<native_dir, home_env, plugin_dir>>
fsVars == <<dirs, file>>

NoFile == [exists |-> FALSE, len |-> 0, readonly |-> FALSE]

\* Path::exists on a directory
DirExists(d) == d \in dirs

\* Path::exists on the database path
FileExists(p) == (file.exists /\ p = Join(plugin_dir, DbFileName)) \/ p \in created

Init ==
    /\ pc = "start"
    /\ native_dir \in NativeOptions
    /\ home_env \in HomeOptions
    /\ plugin_dir \in CandidateDirs
    /\ dirs \in SUBSET CandidateDirs
    /\ file \in {NoFile} \cup
                (IF plugin_dir \in dirs
                 THEN [exists : {TRUE}, len : 0..MaxFileLen, readonly : BOOLEAN]
                 ELSE {})
    /\ app_dir = NoPath
    /\ sqlite_path = NoPath
    /\ connect_options = [filename |-> NoPath, create_if_missing |-> FALSE]
    /\ connection_attempts = 0
    /\ created = {}
    /\ checks = <<>>
    /\ sleeps = <<>>
    /\ outcomes = <<>>
    /\ log = <<>>
    /\ managed = <<>>
    /\ panicked = NoPanic
    /\ result = "none"

(* --------------------------- pure helpers ----------------------------- *)

\* main.rs:83-94: the first option that can be computed wins.
ResolveAppDir(native, home) ==
    IF native.some THEN native.v
    ELSE IF home.ok THEN Join(home.v, HomeConfigSuffix)
    ELSE EmergencyDir

\* main.rs:84, 88, 92: the line that tells which branch was taken.
ResolveLog(native, home) ==
    IF native.some THEN Msg("Using Tauri app config directory: {}", <<APath(native.v)>>)
    ELSE IF home.ok
         THEN Msg("Falling back to HOME/.config/io.stouder.alduin: {}",
                  <<APath(Join(home.v, HomeConfigSuffix))>>)
    ELSE Msg("Emergency fallback to ./data: {}", <<APath(EmergencyDir)>>)

\* Mutant of BackoffDelay: the delay doubles with every failure.
BackoffDelay_Doubling(n) == BackoffBase * 2 ^ n

\* Mutant of BackoffDelay: the same delay after every failure.
BackoffDelay_Constant(n) == BackoffBase

\* main.rs:173: 100 * connection_attempts, in milliseconds.
BackoffDelay(n) == BackoffBase * n

\* Mutant of Exhausted: off by one, a fourth attempt is allowed.
Exhausted_OffByOne(n) == n > max_attempts

\* main.rs:167: connection_attempts >= max_attempts
Exhausted(n) == n >= max_attempts

\* main.rs:157-165: the detail lines of a failed attempt.
ErrorDetail(e) ==
    IF e.kind = "Database"
    THEN << Msg("Database error code: {}", <<ACode(e.code)>>),
            Msg("Database error message: {}", <<AErr(e)>>) >>
    ELSE << Msg("Non-database error: {}", <<AErr(e)>>) >>

\* main.rs:144: what SqlitePool::connect_with can return.  Without
\* create_if_missing a file that is not there cannot be opened.
ConnectResults(opts) ==
    IF FileExists(opts.filename) \/ (opts.create_if_missing /\ DirExists(app_dir))
    THEN {[ok |-> TRUE, err |-> IoError]} \cup {[ok |-> FALSE, err |-> e] : e \in ConnectErrors}
    ELSE {[ok |-> FALSE, err |-> e] : e \in ConnectErrors}

\* main.rs:144: a successful open with create_if_missing creates a file
\* that is not there.
CreatedByConnect(opts, r) ==
    IF r.ok /\ opts.create_if_missing /\ ~FileExists(opts.filename)
    THEN created \cup {opts.filename}
    ELSE created

\* Mutant of ConnectOptions: the file is created when it is missing.
ConnectOptions_CreateIfMissing(path) == [filename |-> path, create_if_missing |-> TRUE]

\* main.rs:116-117: SqliteConnectOptions::new().filename(&sqlite_path);
\* create_if_missing keeps its default, false.
ConnectOptions(path) == [filename |-> path, create_if_missing |-> FALSE]

\* What the check at the end of a wait finds on disk.
Check(site) == [site |-> site, exists |-> FileExists(sqlite_path)]

\* main.rs:137-144: one more turn of the loop, up to the connect await.
StartAttempt(prefix) ==
    /\ connection_attempts' = connection_attempts + 1
    /\ log' = log \o prefix \o
              << Msg("Plugin database connection attempt {}/{}",
                     <<AInt(connection_attempts + 1), AInt(max_attempts)>>) >>
    /\ pc' = "connecting"

(* ------------------------- the setup closure -------------------------- *)

\* main.rs:77-98: resolve the storage directory.
Locate ==
    /\ pc = "start"
    /\ app_dir' = ResolveAppDir(native_dir, home_env)
    /\ log' = log \o
          << Msg("=== ALDUIN DATABASE SETUP DEBUG ===", <<>>),
             Msg("Starting database initialization...", <<>>),
             ResolveLog(native_dir, home_env),
             Msg("Plugin config directory: {}", <<APath(app_dir')>>),
             Msg("Directory exists: {}", <<ABool(DirExists(app_dir'))>>) >>
    /\ pc' = "located"
    /\ UNCHANGED <<envVars, fsVars, created, checks, sqlite_path, connect_options,
                   connection_attempts, sleeps, outcomes, managed, panicked, result>>

\* main.rs:101-104: the database path and the first look at the file.
ProbeFile ==
    /\ pc = "located"
    /\ sqlite_path' = Join(app_dir, DbFileName)
    /\ log' = log \o
          << Msg("Plugin database path: {}", <<APath(sqlite_path')>>),
             Msg("Database file exists: {}", <<ABool(FileExists(sqlite_path'))>>) >>
    /\ pc' = "probed"
    /\ UNCHANGED <<envVars, fsVars, created, checks, app_dir, connect_options,
                   connection_attempts, sleeps, outcomes, managed, panicked, result>>

\* main.rs:106, 111-113: the initial existence check.
InitialCheck ==
    /\ pc = "probed"
    /\ IF FileExists(sqlite_path)
       THEN /\ pc' = "metadata"
            /\ log' = log
       ELSE /\ pc' = "options"
            /\ log' = Append(log,
                   Msg("Plugin database not yet created, will retry connection...", <<>>))
    /\ UNCHANGED <<envVars, fsVars, created, checks, app_dir, sqlite_path,
                   connect_options, connection_attempts, sleeps, outcomes, managed,
                   panicked, result>>

\* main.rs:107-110: fs::metadata; an Err (the file has gone) logs nothing.
ReadMetadata ==
    /\ pc = "metadata"
    /\ IF FileExists(sqlite_path)
       THEN log' = log \o
              << Msg("Database file size: {} bytes", <<AInt(file.len)>>),
                 Msg("Database file readonly: {}", <<ABool(file.readonly)>>) >>
       ELSE log' = log
    /\ pc' = "options"
    /\ UNCHANGED <<envVars, fsVars, created, checks, app_dir, sqlite_path,
                   connect_options, connection_attempts, sleeps, outcomes, managed,
                   panicked, result>>

\* Mutant of BeginW1: the first wait is skipped when the file is there.
BeginW1_SkipWhenPresent ==
    /\ pc = "options"
    /\ connect_options' = ConnectOptions(sqlite_path)
    /\ IF FileExists(sqlite_path)
       THEN /\ StartAttempt(<<Msg("Connecting to plugin database...", <<>>)>>)
            /\ UNCHANGED sleeps
       ELSE /\ log' = Append(log,
                   Msg("Waiting for plugin initialization and database creation...", <<>>))
            /\ sleeps' = Append(sleeps, Sleep("W1", W1))
            /\ pc' = "W1"
            /\ UNCHANGED connection_attempts
    /\ UNCHANGED <<envVars, fsVars, created, checks, app_dir, sqlite_path, outcomes,
                   managed, panicked, result>>

\* main.rs:115-121: the connect options, then the first wait window.
BeginW1 ==
    /\ pc = "options"
    /\ connect_options' = ConnectOptions(sqlite_path)
    /\ log' = Append(log,
           Msg("Waiting for plugin initialization and database creation...", <<>>))
    /\ sleeps' = Append(sleeps, Sleep("W1", W1))
    /\ pc' = "W1"
    /\ UNCHANGED <<envVars, fsVars, created, checks, app_dir, sqlite_path,
                   connection_attempts, outcomes, managed, panicked, result>>

\* main.rs:129-131: the file never appeared; abort.
FileNotFound ==
    /\ log' = log \o
          << Msg("Plugin database not found after extended wait", <<>>),
             Msg("Expected location: {}", <<APath(sqlite_path)>>) >>
    /\ panicked' = [raised |-> TRUE,
           msg |-> Msg("Plugin database creation failed or path mismatch", <<>>)]
    /\ pc' = "aborted"
    /\ UNCHANGED connection_attempts

\* Mutant of AfterW1: no second wait window, abort at once.
AfterW1_NoSecondWait ==
    /\ pc = "W1"
    /\ checks' = Append(checks, Check("W1"))
    /\ IF ~FileExists(sqlite_path)
       THEN FileNotFound
       ELSE /\ StartAttempt(<<Msg("Connecting to plugin database...", <<>>)>>)
            /\ UNCHANGED panicked
    /\ UNCHANGED <<envVars, fsVars, created, app_dir, sqlite_path, connect_options,
                   sleeps, outcomes, managed, result>>

\* Mutant of AfterW1: the result of the initial check (log line 7) is
\* reused instead of looking at the file again.
AfterW1_Cached ==
    /\ pc = "W1"
    /\ checks' = Append(checks, Check("W1"))
    /\ IF ~log[7].args[1].b
       THEN /\ log' = Append(log,
                   Msg("Plugin database still not found, waiting longer...", <<>>))
            /\ sleeps' = Append(sleeps, Sleep("W2", W2))
            /\ pc' = "W2"
            /\ UNCHANGED connection_attempts
       ELSE /\ StartAttempt(<<Msg("Connecting to plugin database...", <<>>)>>)
            /\ UNCHANGED sleeps
    /\ UNCHANGED <<envVars, fsVars, created, app_dir, sqlite_path, connect_options,
                   outcomes, managed, panicked, result>>

\* Mutant of AfterW1: an empty file (metadata.len() = 0) counts as absent.
AfterW1_EmptyFileWaits ==
    /\ pc = "W1"
    /\ checks' = Append(checks, Check("W1"))
    /\ IF ~FileExists(sqlite_path) \/ file.len = 0
       THEN /\ log' = Append(log,
                   Msg("Plugin database still not found, waiting longer...", <<>>))
            /\ sleeps' = Append(sleeps, Sleep("W2", W2))
            /\ pc' = "W2"
            /\ UNCHANGED connection_attempts
       ELSE /\ StartAttempt(<<Msg("Connecting to plugin database...", <<>>)>>)
            /\ UNCHANGED sleeps
    /\ UNCHANGED <<envVars, fsVars, created, app_dir, sqlite_path, connect_options,
                   outcomes, managed, panicked, result>>

\* main.rs:124-126 and 136-144: the check after W1.
AfterW1 ==
    /\ pc = "W1"
    /\ checks' = Append(checks, Check("W1"))
    /\ IF ~FileExists(sqlite_path)
       THEN /\ log' = Append(log,
                   Msg("Plugin database still not found, waiting longer...", <<>>))
            /\ sleeps' = Append(sleeps, Sleep("W2", W2))
            /\ pc' = "W2"
            /\ UNCHANGED connection_attempts
       ELSE /\ StartAttempt(<<Msg("Connecting to plugin database...", <<>>)>>)
            /\ UNCHANGED sleeps
    /\ UNCHANGED <<envVars, fsVars, created, app_dir, sqlite_path, connect_options,
                   outcomes, managed, panicked, result>>

\* Mutant of AfterW2: a file still missing is waited for again.
AfterW2_PollsAgain ==
    /\ pc = "W2"
    /\ checks' = Append(checks, Check("W2"))
    /\ IF ~FileExists(sqlite_path)
       THEN /\ log' = Append(log,
                   Msg("Plugin database still not found, waiting longer...", <<>>))
            /\ sleeps' = Append(sleeps, Sleep("W2", W2))
            /\ pc' = "W2"
            /\ UNCHANGED connection_attempts
       ELSE /\ StartAttempt(<<Msg("Connecting to plugin database...", <<>>)>>)
            /\ UNCHANGED sleeps
    /\ UNCHANGED <<envVars, fsVars, created, app_dir, sqlite_path, connect_options,
                   outcomes, managed, panicked, result>>

\* main.rs:128-132 and 136-144: the check after W2.
AfterW2 ==
    /\ pc = "W2"
    /\ checks' = Append(checks, Check("W2"))
    /\ IF ~FileExists(sqlite_path)
       THEN FileNotFound
       ELSE /\ StartAttempt(<<Msg("Connecting to plugin database...", <<>>)>>)
            /\ UNCHANGED panicked
    /\ UNCHANGED <<envVars, fsVars, created, app_dir, sqlite_path, connect_options,
                   sleeps, outcomes, managed, result>>

\* Mutant of Succeeded: every result is taken for a pool.
Succeeded_Always(r) == TRUE

\* main.rs:145: the match arm Ok(pool).
Succeeded(r) == r.ok

\* Mutant of Publish: the pool is registered twice.
Publish_Twice(m, pool) == Append(Append(m, pool), pool)

\* main.rs:182: app.manage(db).
Publish(m, pool) == Append(m, pool)

\* main.rs:145-148 and 180-186: the attempt succeeded; publish and return.
OkBranch ==
    /\ log' = log \o
          << Msg("Plugin database connection successful on attempt {}",
                 <<AInt(connection_attempts)>>),
             Msg("Plugin database connection established!", <<>>),
             Msg("Registering unified database with app state...", <<>>),
             Msg("Unified database registered with app state", <<>>),
             Msg("=== UNIFIED DATABASE SETUP COMPLETE ===", <<>>) >>
    /\ managed' = Publish(managed,
           [attempt |-> connection_attempts, filename |-> connect_options.filename])
    /\ result' = "Ok"
    /\ pc' = "done"
    /\ UNCHANGED <<sleeps, panicked>>

\* main.rs:150-165: the diagnostics of a failed attempt.
FailureLog(e) ==
    << Msg("SQLite connection failed on attempt {}: {}",
           <<AInt(connection_attempts), AErr(e)>>),
       Msg("Connection options - filename: {}", <<APath(sqlite_path)>>),
       Msg("Database path: {}", <<APath(sqlite_path)>>),
       Msg("Directory exists: {}", <<ABool(DirExists(app_dir))>>),
       Msg("Database file exists: {}", <<ABool(FileExists(sqlite_path))>>) >>
    \o ErrorDetail(e)

\* Mutant of Abort: the abort reports the first attempt's error.
Abort_FirstError(e) ==
    /\ log' = log \o FailureLog(e) \o
          << Msg("All connection attempts failed. Final error: {}",
                 <<AErr(outcomes'[1].err)>>) >>
    /\ panicked' = [raised |-> TRUE,
           msg |-> Msg("Failed to connect to SQLite after {} attempts: {}",
                       <<AInt(max_attempts), AErr(outcomes'[1].err)>>)]
    /\ pc' = "aborted"
    /\ UNCHANGED sleeps

\* main.rs:168-169: no attempt is left; abort with the last error.
Abort(e) ==
    /\ log' = log \o FailureLog(e) \o
          << Msg("All connection attempts failed. Final error: {}", <<AErr(e)>>) >>
    /\ panicked' = [raised |-> TRUE,
           msg |-> Msg("Failed to connect to SQLite after {} attempts: {}",
                       <<AInt(max_attempts), AErr(e)>>)]
    /\ pc' = "aborted"
    /\ UNCHANGED sleeps

\* Mutant of Backoff: the retry is immediate, without the sleep.
Backoff_NoSleep(e) ==
    /\ log' = log \o FailureLog(e) \o
          << Msg("Retrying in {}ms...", <<AInt(BackoffDelay(connection_attempts))>>) >>
    /\ pc' = "backoff"
    /\ UNCHANGED <<sleeps, panicked>>

\* main.rs:172-175: back off before the next attempt.
Backoff(e) ==
    /\ log' = log \o FailureLog(e) \o
          << Msg("Retrying in {}ms...", <<AInt(BackoffDelay(connection_attempts))>>) >>
    /\ sleeps' = Append(sleeps, Sleep("backoff", BackoffDelay(connection_attempts)))
    /\ pc' = "backoff"
    /\ UNCHANGED panicked

\* Mutant of ErrBranch: exhaustion is returned as an error, not a panic.
ErrBranch_ReturnsErr(e) ==
    IF Exhausted(connection_attempts)
    THEN /\ log' = log \o FailureLog(e)
         /\ result' = "Err"
         /\ pc' = "done"
         /\ UNCHANGED <<sleeps, panicked, managed>>
    ELSE /\ Backoff(e)
         /\ UNCHANGED <<managed, result>>

\* Mutant of ErrBranch: the backoff sleep comes before the exhaustion check.
ErrBranch_SleepsBeforeCheck(e) ==
    /\ IF Exhausted(connection_attempts)
       THEN /\ log' = log \o FailureLog(e) \o
                  << Msg("Retrying in {}ms...",
                         <<AInt(BackoffDelay(connection_attempts))>>),
                     Msg("All connection attempts failed. Final error: {}",
                         <<AErr(e)>>) >>
            /\ sleeps' = Append(sleeps,
                   Sleep("backoff", BackoffDelay(connection_attempts)))
            /\ panicked' = [raised |-> TRUE,
                   msg |-> Msg("Failed to connect to SQLite after {} attempts: {}",
                               <<AInt(max_attempts), AErr(e)>>)]
            /\ pc' = "aborted"
       ELSE Backoff(e)
    /\ UNCHANGED <<managed, result>>

\* Mutant of ErrBranch: a database-level error is fatal at once.
ErrBranch_FatalOnDatabaseError(e) ==
    /\ IF Exhausted(connection_attempts) \/ e.kind = "Database"
       THEN Abort(e)
       ELSE Backoff(e)
    /\ UNCHANGED <<managed, result>>

\* main.rs:149-176: the attempt failed; abort or back off.
ErrBranch(e) ==
    /\ IF Exhausted(connection_attempts) THEN Abort(e) ELSE Backoff(e)
    /\ UNCHANGED <<managed, result>>

\* main.rs:144-177: connect_with returns and the match runs.
ConnectReturns ==
    /\ pc = "connecting"
    /\ \E r \in ConnectResults(connect_options) :
         /\ outcomes' = Append(outcomes, r)
         /\ created' = CreatedByConnect(connect_options, r)
         /\ IF Succeeded(r) THEN OkBranch ELSE ErrBranch(r.err)
    /\ UNCHANGED <<envVars, fsVars, checks, app_dir, sqlite_path, connect_options,
                   connection_attempts>>

\* Mutant of AfterBackoff: a pool is registered before the retry connects.
AfterBackoff_Publishes ==
    /\ pc = "backoff"
    /\ StartAttempt(<<>>)
    /\ managed' = Publish(managed,
           [attempt |-> connection_attempts + 1, filename |-> connect_options.filename])
    /\ UNCHANGED <<envVars, fsVars, created, checks, app_dir, sqlite_path,
                   connect_options, sleeps, outcomes, panicked, result>>

\* main.rs:175, 140-144: the backoff is over; next turn of the loop.
AfterBackoff ==
    /\ pc = "backoff"
    /\ StartAttempt(<<>>)
    /\ UNCHANGED <<envVars, fsVars, created, checks, app_dir, sqlite_path,
                   connect_options, sleeps, outcomes, managed, panicked, result>>

(* ---------------------- the external initializer ---------------------- *)

Running == pc \notin {"done", "aborted"}

progVars == <<pc, app_dir, sqlite_path, connect_options, connection_attempts,
              created, checks, sleeps, outcomes, log, managed, panicked, result>>

\* The plugin creates its directory.
ExtCreateDir ==
    /\ Running
    /\ plugin_dir \notin dirs
    /\ dirs' = dirs \cup {plugin_dir}
    /\ UNCHANGED <<envVars, file, progVars>>

\* The plugin creates the database file (empty at first).
ExtCreateFile ==
    /\ Running
    /\ plugin_dir \in dirs
    /\ ~file.exists
    /\ file' = [exists |-> TRUE, len |-> 0, readonly |-> FALSE]
    /\ UNCHANGED <<envVars, dirs, progVars>>

\* The plugin's migrations write to the file.
ExtWriteFile ==
    /\ Running
    /\ file.exists /\ ~file.readonly
    /\ file.len < MaxFileLen
    /\ file' = [file EXCEPT !.len = @ + 1]
    /\ UNCHANGED <<envVars, dirs, progVars>>

\* The file is removed.
ExtRemoveFile ==
    /\ Running
    /\ file.exists
    /\ file' = NoFile
    /\ UNCHANGED <<envVars, dirs, progVars>>

Next ==
    \/ Locate
    \/ ProbeFile
    \/ InitialCheck
    \/ ReadMetadata
    \/ BeginW1
    \/ AfterW1
    \/ AfterW2
    \/ ConnectReturns
    \/ AfterBackoff
    \/ ExtCreateDir
    \/ ExtCreateFile
    \/ ExtWriteFile
    \/ ExtRemoveFile

Spec == Init /\ [][Next]_vars

\* main.rs:75-188: the steps of the setup closure itself.
Setup ==
    \/ Locate
    \/ ProbeFile
    \/ InitialCheck
    \/ ReadMetadata
    \/ BeginW1
    \/ AfterW1
    \/ AfterW2
    \/ ConnectReturns
    \/ AfterBackoff

\* main.rs:76: block_on drives the closure's future to completion; every
\* sleep and every connect_with call it awaits returns.
FairSpec == Spec /\ WF_vars(Setup)

(* ----------------------- reading the run back ------------------------- *)

\* Positions of the log lines written with a given format string.
Lines(fmt) == {i \in DOMAIN log : log[i].fmt = fmt}

AttemptLines == Lines("Plugin database connection attempt {}/{}")
FailureLines == Lines("SQLite connection failed on attempt {}: {}")
RetryLines == Lines("Retrying in {}ms...")
FinalErrorLines == Lines("All connection attempts failed. Final error: {}")

\* The n-th smallest element of a finite set of positions.
RECURSIVE Nth(_, _)
Nth(S, n) ==
    LET m == CHOOSE x \in S : \A y \in S : x <= y
    IN IF n = 1 THEN m ELSE Nth(S \ {m}, n - 1)

Successful == {i \in DOMAIN outcomes : outcomes[i].ok}

Windows == SelectSeq(sleeps, LAMBDA s : s.site \in {"W1", "W2"})
Backoffs == SelectSeq(sleeps, LAMBDA s : s.site = "backoff")

\* The two FATAL aborts.
FileNotReadyTimeout == pc = "aborted" /\ connection_attempts = 0
ConnectionExhausted == pc = "aborted" /\ connection_attempts > 0

(* ------------------------------- claims ------------------------------- *)

\* C1: the managed state holds no pool unless a connection attempt has
\* succeeded: a publish step happens only together with a successful
\* attempt's return, the pool published is the one of that attempt, and a
\* run that has aborted has published nothing.
C1_NoHandleBeforeSuccess ==
    /\ [](managed # <<>> =>
            /\ Successful # {}
            /\ \A i \in DOMAIN managed :
                  /\ managed[i].attempt \in Successful
                  /\ managed[i].filename = sqlite_path)
    /\ [](panicked.raised => managed = <<>>)
    /\ [][managed' # managed =>
            /\ Len(outcomes') = Len(outcomes) + 1
            /\ outcomes'[Len(outcomes')].ok]_vars

\* C1 witness: a pool is published after a failed and a successful attempt.
C1_Witness ==
    /\ pc = "done"
    /\ Len(managed) = 1
    /\ Len(outcomes) = 2
    /\ ~outcomes[1].ok /\ outcomes[2].ok

\* C2 (as stated): over any run of the setup flow the publish step is
\* executed exactly once and exactly one attempt of the run succeeded.
C2_ExactlyOnePublishPerRun ==
    pc \in {"done", "aborted"} =>
        /\ Len(managed) = 1
        /\ Cardinality(Successful) = 1

\* C2 (amended): at most one pool is ever published per run; a run that
\* returns has published exactly once and exactly one of its attempts
\* succeeded; a run that aborts has published nothing and none of its
\* attempts succeeded.
C2_AtMostOnePublish ==
    /\ Len(managed) <= 1
    /\ Cardinality(Successful) <= 1
    /\ Len(managed) = Cardinality(Successful)
    /\ pc = "done" => Len(managed) = 1 /\ result = "Ok"
    /\ pc = "aborted" => Len(managed) = 0 /\ result = "none"
    /\ managed # <<>> => pc = "done"

\* C2 witness: the run returned after a success at the third attempt.
C2_Witness ==
    /\ pc = "done"
    /\ Len(managed) = 1
    /\ Successful = {3}

\* C3: no connection attempt starts before W1 has elapsed, whatever the
\* initial existence check saw; when the file is there at the check after
\* W1, the first attempt follows W1 alone.
C3_WaitBeforeConnect ==
    /\ [](connection_attempts > 0 \/ outcomes # <<>> =>
            /\ Len(sleeps) >= 1
            /\ sleeps[1] = Sleep("W1", W1)
            /\ pc \notin {"start", "located", "probed", "metadata", "options", "W1"})
    /\ [](pc \in {"start", "located", "probed", "metadata", "options"} => sleeps = <<>>)
    /\ [][connection_attempts = 0 /\ connection_attempts' # 0 =>
            pc \in {"W1", "W2"}]_vars
    /\ [][pc = "W1" /\ pc' # "W1" /\ FileExists(sqlite_path) =>
            /\ pc' = "connecting"
            /\ connection_attempts' = 1
            /\ sleeps' = <<Sleep("W1", W1)>>]_vars

\* C3 witness: the file was there at the initial check (log line 7) and
\* the first attempt is under way after W1 alone.
C3_Witness ==
    /\ pc = "connecting"
    /\ connection_attempts = 1
    /\ sleeps = <<Sleep("W1", W1)>>
    /\ log[7] = Msg("Database file exists: {}", <<ABool(TRUE)>>)

\* C4: when the file is absent at the checks, the flow aborts after exactly
\* the two windows W1 then the longer W2, never after fewer, never enters
\* a third window, and makes no connection attempt.
C4_AbortAfterTwoWindows ==
    /\ [](FileNotReadyTimeout =>
            /\ sleeps = <<Sleep("W1", W1), Sleep("W2", W2)>>
            /\ W1 < W2
            /\ outcomes = <<>>
            /\ AttemptLines = {}
            /\ managed = <<>>)
    /\ [](Len(Windows) <= 2)
    /\ [][pc = "W1" /\ pc' # "W1" /\ ~FileExists(sqlite_path) =>
            /\ pc' = "W2"
            /\ sleeps' = <<Sleep("W1", W1), Sleep("W2", W2)>>]_vars
    /\ [][pc = "W2" /\ pc' # "W2" /\ ~FileExists(sqlite_path) =>
            /\ pc' = "aborted"
            /\ panicked'.raised
            /\ sleeps' = sleeps
            /\ connection_attempts' = 0]_vars
    /\ [][pc # "aborted" /\ pc' = "aborted" /\ connection_attempts' = 0 =>
            pc = "W2" /\ ~FileExists(sqlite_path)]_vars

\* C4 witness: the file was absent at the initial check too (log line 7)
\* and the flow has aborted on the missing file.
C4_Witness ==
    /\ FileNotReadyTimeout
    /\ panicked.raised
    /\ log[7] = Msg("Database file exists: {}", <<ABool(FALSE)>>)

\* C5: at most max_attempts = 3 attempts, numbered 1, 2, 3 in order and
\* one at a time; a success is the last attempt of its run; there is no
\* fourth attempt.
C5_BoundedSequentialAttempts ==
    /\ [](max_attempts = 3 /\ connection_attempts <= max_attempts)
    /\ [](/\ Cardinality(AttemptLines) = connection_attempts
          /\ \A k \in 1..connection_attempts :
                log[Nth(AttemptLines, k)].args[1].i = k)
    /\ [](Len(outcomes) =
            IF pc = "connecting" THEN connection_attempts - 1 ELSE connection_attempts)
    /\ [](\A i \in Successful : i = Len(outcomes) /\ pc = "done")
    /\ [][connection_attempts' # connection_attempts =>
            /\ connection_attempts' = connection_attempts + 1
            /\ Successful = {}
            /\ pc # "connecting"]_vars

\* C5 witness: the third attempt has returned.
C5_Witness ==
    /\ connection_attempts = 3
    /\ Len(outcomes) = 3

\* C6: the delay after the k-th failed attempt, when attempts remain, is
\* BackoffBase * k with BackoffBase = 100 ms, so the backoff delays of a
\* run are strictly increasing: 100 ms, then 200 ms.
C6_BackoffDelays ==
    /\ [](BackoffBase = 100)
    /\ [](\A k \in DOMAIN Backoffs :
            /\ Backoffs[k].ms = BackoffBase * k
            /\ k <= Len(outcomes) /\ ~outcomes[k].ok)
    /\ [](\A j, k \in DOMAIN Backoffs : j < k => Backoffs[j].ms < Backoffs[k].ms)
    /\ [](Len(Backoffs) = 2 =>
            Backoffs = <<Sleep("backoff", 100), Sleep("backoff", 200)>>)
    /\ [][(/\ Len(outcomes') = Len(outcomes) + 1
           /\ ~outcomes'[Len(outcomes')].ok
           /\ Len(outcomes') < max_attempts) =>
            sleeps' = Append(sleeps, Sleep("backoff", BackoffBase * Len(outcomes')))]_vars

\* C6 witness: two backoff delays have been taken.
C6_Witness ==
    /\ Len(Backoffs) = 2
    /\ pc = "connecting"

\* C7 (as stated): the locator returns the native config dir if there is
\* one, else HOME/.config/io.stouder.alduin if HOME is set, else ./data,
\* whatever exists on disk.
C7_FirstComputableWins ==
    pc # "start" =>
        app_dir = IF native_dir.some THEN native_dir.v
                  ELSE IF home_env.set THEN Join(home_env.v, HomeConfigSuffix)
                  ELSE EmergencyDir

\* C8 (as stated): with no native config dir and HOME unset the storage
\* path is ./data, and every abort on a missing file carries the expected
\* database path in its abort message.
C8_AbortMessageNamesPath ==
    /\ (pc # "start" /\ ~native_dir.some /\ ~home_env.set) => app_dir = EmergencyDir
    /\ FileNotReadyTimeout =>
          \E i \in DOMAIN panicked.msg.args :
              /\ panicked.msg.args[i].t = "path"
              /\ panicked.msg.args[i].p = sqlite_path

\* C9: when the first successful attempt is attempt k, the pool is
\* published after exactly k attempts and k-1 backoff delays, one between
\* each two consecutive attempts (the j-th of BackoffBase * j ms).
C9_PublishAfterKAttempts ==
    pc = "done" =>
        LET k == connection_attempts IN
        /\ k \in 1..max_attempts
        /\ Len(outcomes) = k
        /\ Successful = {k}
        /\ managed = <<[attempt |-> k, filename |-> sqlite_path]>>
        /\ Cardinality(AttemptLines) = k
        /\ Len(Backoffs) = k - 1
        /\ Cardinality(RetryLines) = k - 1
        /\ Len(sleeps) = Len(Windows) + k - 1
        /\ \A j \in 1..(k - 1) :
              /\ Nth(AttemptLines, j) < Nth(RetryLines, j)
              /\ Nth(RetryLines, j) < Nth(AttemptLines, j + 1)
              /\ log[Nth(RetryLines, j)].args = <<AInt(Backoffs[j].ms)>>
              /\ Backoffs[j].ms = BackoffBase * j

\* C9 witness: the file was there at the initial check, attempt 1 failed
\* with a non-database error, attempt 2 succeeded, one 100 ms backoff.
C9_Witness ==
    /\ pc = "done"
    /\ log[7] = Msg("Database file exists: {}", <<ABool(TRUE)>>)
    /\ connection_attempts = 2
    /\ ~outcomes[1].ok /\ outcomes[1].err = IoError
    /\ outcomes[2].ok
    /\ Backoffs = <<Sleep("backoff", 100)>>
    /\ Len(managed) = 1

\* C10: when all max_attempts = 3 attempts fail, the process aborts with a
\* message carrying the third attempt's error, nothing is published, and
\* the log holds the error detail of attempts 1, 2, 3 in order and then,
\* as its last line, the final error.
C10_ExhaustedAbort ==
    (Len(outcomes) = max_attempts /\ Successful = {}) =>
        /\ ConnectionExhausted
        /\ panicked.raised
        /\ panicked.msg = Msg("Failed to connect to SQLite after {} attempts: {}",
                              <<AInt(3), AErr(outcomes[3].err)>>)
        /\ managed = <<>>
        /\ result = "none"
        /\ Cardinality(FailureLines) = 3
        /\ \A k \in 1..3 :
              LET at == Nth(FailureLines, k)
                  detail == ErrorDetail(outcomes[k].err)
              IN /\ log[at].args = <<AInt(k), AErr(outcomes[k].err)>>
                 /\ SubSeq(log, at + 5, at + 4 + Len(detail)) = detail
        /\ FinalErrorLines = {Len(log)}
        /\ log[Len(log)].args = <<AErr(outcomes[3].err)>>

\* C10 witness: three failures whose errors differ, then the abort.
C10_Witness ==
    /\ ConnectionExhausted
    /\ Len(outcomes) = 3
    /\ outcomes[1].err = IoError
    /\ outcomes[2].err = IoError
    /\ outcomes[3].err = DbError(SQLITE_CANTOPEN)

\* C11: no step of the setup flow creates the database file or its
\* directory: the file system changes only in steps of the external
\* initializer, the connect options never ask for create-if-missing, and an
\* attempt made while the file is absent fails and leaves it absent.
C11_NeverCreatesFile ==
    /\ [](created = {})
    /\ [](connect_options.create_if_missing = FALSE)
    /\ [][(dirs' # dirs \/ file' # file) => UNCHANGED progVars]_vars
    /\ [][pc' # pc => UNCHANGED fsVars]_vars
    /\ [][(Len(outcomes') = Len(outcomes) + 1 /\ ~FileExists(sqlite_path)) =>
            /\ ~outcomes'[Len(outcomes')].ok
            /\ ~FileExists(sqlite_path)']_vars

\* C11 witness: the file was there at the check after W1, was removed
\* before the first attempt, and the attempt failed without creating it.
C11_Witness ==
    /\ pc = "backoff"
    /\ connection_attempts = 1
    /\ checks = <<[site |-> "W1", exists |-> TRUE]>>
    /\ ~outcomes[1].ok
    /\ log[Nth(FailureLines, 1) + 4] = Msg("Database file exists: {}", <<ABool(FALSE)>>)
    /\ DirExists(app_dir)
    /\ ~FileExists(sqlite_path)

Terminated == pc \in {"done", "aborted"}

\* C12: every run of the setup flow terminates, whatever the external
\* initializer does and whatever the attempts return: it ends published or
\* aborted after at most 2 wait windows, 3 attempts and 2 backoff delays,
\* and path resolution always yields a path.
C12_Terminates ==
    /\ <>Terminated
    /\ [](Terminated => (pc = "done" /\ managed # <<>>) \/ (pc = "aborted" /\ panicked.raised))
    /\ [](/\ Len(Windows) <= 2
          /\ connection_attempts <= 3
          /\ Len(outcomes) <= 3
          /\ Len(Backoffs) <= 2
          /\ Len(sleeps) = Len(Windows) + Len(Backoffs))
    /\ [](pc # "start" => app_dir # NoPath /\ app_dir \in CandidateDirs)
    /\ [](~Terminated => ENABLED Setup)

\* C12 witness: the longest run: both windows, three attempts, two backoffs.
C12_Witness ==
    /\ Terminated
    /\ Len(Windows) = 2
    /\ Len(outcomes) = 3
    /\ Len(Backoffs) = 2

\* C13: the setup routine never returns an error: it returns only Ok, and
\* only with the pool published; both FATAL conditions panic instead of
\* returning; a failed attempt with attempts left is absorbed by the loop.
C13_NeverReturnsErr ==
    /\ [](result \in {"none", "Ok"})
    /\ [](result = "Ok" <=> pc = "done")
    /\ [](result = "Ok" => Len(managed) = 1 /\ ~panicked.raised)
    /\ [](pc = "aborted" <=> panicked.raised)
    /\ [](panicked.raised => result = "none")
    /\ [][(/\ Len(outcomes') = Len(outcomes) + 1
           /\ ~outcomes'[Len(outcomes')].ok
           /\ Len(outcomes') < max_attempts) =>
            /\ pc' = "backoff"
            /\ result' = "none"
            /\ ~panicked'.raised]_vars
    /\ [][result' # result => managed' # managed /\ result' = "Ok"]_vars

\* C13 witness: two failures were absorbed, then the routine returned Ok.
C13_Witness ==
    /\ result = "Ok"
    /\ Len(outcomes) = 3
    /\ ~outcomes[1].ok /\ ~outcomes[2].ok /\ outcomes[3].ok
    /\ ~panicked.raised
    /\ Len(managed) = 1

\* What the initial check (main.rs:104) saw.
InitialSeen == log[7].args[1].b

\* C14: existence is read anew at each check, whatever the earlier checks
\* saw and however the external initializer interleaves: the step after W1
\* goes to the connection when the file is there then (no W2) and into W2
\* when it is not; the step after W2 goes to the connection when the file
\* is there then, and aborts when it is not.
C14_ExistenceReRead ==
    /\ [][pc = "W1" /\ pc' # "W1" =>
            /\ pc' = IF FileExists(sqlite_path) THEN "connecting" ELSE "W2"
            /\ checks' = <<[site |-> "W1", exists |-> FileExists(sqlite_path)]>>]_vars
    /\ [][pc = "W2" /\ pc' # "W2" =>
            /\ pc' = IF FileExists(sqlite_path) THEN "connecting" ELSE "aborted"
            /\ checks' = Append(checks, [site |-> "W2", exists |-> FileExists(sqlite_path)])]_vars
    /\ [](Len(checks) >= 1 =>
            IF checks[1].exists
            THEN Len(Windows) = 1 /\ Len(checks) = 1 /\ connection_attempts >= 1
            ELSE Len(Windows) = 2)
    /\ [](Len(checks) = 2 =>
            IF checks[2].exists
            THEN connection_attempts >= 1 /\ ~FileNotReadyTimeout
            ELSE FileNotReadyTimeout)

\* C14 witness: the file was there at the initial check, gone at the check
\* after W1, and back at the check after W2: W2 was entered, then the
\* connection.
C14_Witness ==
    /\ pc = "connecting"
    /\ InitialSeen
    /\ checks = <<[site |-> "W1", exists |-> FALSE], [site |-> "W2", exists |-> TRUE]>>
    /\ Len(Windows) = 2
    /\ connection_attempts = 1

\* The sleeps a run makes, as a function of what the checks after the waits
\* found and of what the attempts returned, and of nothing else.
ExpectedSleeps(cs, outs) ==
    LET failed == Cardinality({k \in DOMAIN outs : ~outs[k].ok /\ k < max_attempts})
    IN <<Sleep("W1", W1)>>
       \o (IF Len(cs) >= 1 /\ ~cs[1].exists THEN <<Sleep("W2", W2)>> ELSE <<>>)
       \o [k \in 1..failed |-> Sleep("backoff", BackoffBase * k)]

\* Likewise whether the run has aborted.
ExpectedAbort(cs, outs) ==
    \/ Len(cs) = 2 /\ ~cs[2].exists
    \/ Len(outs) = max_attempts /\ \A k \in DOMAIN outs : ~outs[k].ok

\* C15: the initial existence check and the file's size and read-only flag
\* are diagnostics only: the waits, attempts, publish and abort of a run
\* are a function of the existence found after W1 and after W2 and of the
\* attempts' outcomes alone, so two runs that agree on these and differ in
\* the diagnostics do the same.
C15_DiagnosticsDoNotSteer ==
    pc \notin {"start", "located", "probed", "metadata", "options"} =>
        /\ sleeps = ExpectedSleeps(checks, outcomes)
        /\ connection_attempts = Len(outcomes) + (IF pc = "connecting" THEN 1 ELSE 0)
        /\ Len(managed) = Cardinality({k \in DOMAIN outcomes : outcomes[k].ok})
        /\ panicked.raised = ExpectedAbort(checks, outcomes)
        /\ (result = "Ok") = (\E k \in DOMAIN outcomes : outcomes[k].ok)

\* C15 witness: the initial check saw a read-only file of one page (log
\* lines 7 to 9) and the run went through W1 alone and one attempt.
C15_Witness ==
    /\ pc = "done"
    /\ InitialSeen
    /\ log[8] = Msg("Database file size: {} bytes", <<AInt(1)>>)
    /\ log[9] = Msg("Database file readonly: {}", <<ABool(TRUE)>>)
    /\ checks = <<[site |-> "W1", exists |-> TRUE]>>
    /\ Len(outcomes) = 1

\* C16: the publish is the only step that changes the managed state: path
\* resolution, existence checks, waits, failed attempts, backoffs and the
\* external initializer leave it as it is; the publish comes with the
\* return of a successful attempt and is the last step before setup
\* returns (its log lines end the log).
C16_PublishOnlyMutation ==
    /\ [][managed' # managed =>
            /\ pc = "connecting" /\ pc' = "done"
            /\ managed = <<>> /\ Len(managed') = 1
            /\ outcomes'[Len(outcomes')].ok
            /\ result = "none" /\ result' = "Ok"]_vars
    /\ [][pc' # "done" => managed' = managed]_vars
    /\ [][pc = "done" => UNCHANGED vars]_vars
    /\ [](pc # "done" => managed = <<>>)
    /\ [](pc = "done" =>
            /\ Len(managed) = 1
            /\ SubSeq(log, Len(log) - 2, Len(log)) =
                 << Msg("Registering unified database with app state...", <<>>),
                    Msg("Unified database registered with app state", <<>>),
                    Msg("=== UNIFIED DATABASE SETUP COMPLETE ===", <<>>) >>)

\* C16 witness: published after both windows, two failures and two
\* backoffs, none of which touched the managed state.
C16_Witness ==
    /\ pc = "done"
    /\ Len(managed) = 1
    /\ Len(Windows) = 2
    /\ Len(Backoffs) = 2

\* C17: a backoff delay is entered only when attempts remain: the failure
\* of attempt 3 aborts at once without a sleep, a run that ends exhausted
\* has exactly 3 attempts and 2 backoffs, and every backoff is followed by
\* another attempt.
C17_BackoffOnlyWhenAttemptsRemain ==
    /\ [](pc = "backoff" =>
            /\ connection_attempts < max_attempts
            /\ Len(Backoffs) = connection_attempts)
    /\ [](connection_attempts >= 1 /\ pc # "backoff" =>
            Len(Backoffs) = connection_attempts - 1)
    /\ [](ConnectionExhausted =>
            /\ connection_attempts = 3
            /\ Len(outcomes) = 3
            /\ Len(Backoffs) = 2
            /\ Cardinality(RetryLines) = 2
            /\ \A i \in RetryLines : i < Nth(FailureLines, 3))
    /\ [][(/\ Len(outcomes') = Len(outcomes) + 1
           /\ ~outcomes'[Len(outcomes')].ok
           /\ Len(outcomes') = max_attempts) =>
            /\ pc' = "aborted"
            /\ sleeps' = sleeps]_vars
    /\ [][sleeps' # sleeps /\ pc' = "backoff" =>
            connection_attempts < max_attempts]_vars
    /\ [][pc = "backoff" /\ pc' # "backoff" =>
            /\ pc' = "connecting"
            /\ connection_attempts' = connection_attempts + 1]_vars

\* C17 witness: exhausted after W1 alone: three attempts, two backoffs.
C17_Witness ==
    /\ ConnectionExhausted
    /\ Len(Windows) = 1
    /\ Len(outcomes) = 3
    /\ sleeps = <<Sleep("W1", W1), Sleep("backoff", 100), Sleep("backoff", 200)>>

\* The "Database file exists" line of the k-th failed attempt's diagnostics.
FailureSawFile(k) == log[Nth(FailureLines, k) + 4].args[1].b

RECURSIVE SleptMs(_)
SleptMs(n) == IF n = 0 THEN 0 ELSE SleptMs(n - 1) + sleeps[n].ms

TotalMs == SleptMs(Len(sleeps))

\* C19: the deliberate suspensions of a run add up to at least 1000 ms
\* once the first wait is made (so in every run that ends), to exactly
\* 3000 ms in a run that aborts on the missing file, and to at most
\* 1000 + 2000 + 100 + 200 = 3300 ms in any run.
C19_TotalSuspensionBounded ==
    /\ TotalMs <= 3300
    /\ sleeps # <<>> => TotalMs >= 1000
    /\ Terminated => TotalMs \in {1000, 1100, 1300, 3000, 3100, 3300}
    /\ FileNotReadyTimeout => TotalMs = 3000
    /\ ConnectionExhausted => TotalMs \in {1300, 3300}

\* C19 witness: a run that ended after the longest total suspension.
C19_Witness ==
    /\ Terminated
    /\ TotalMs = 3300

====
